---- MODULE Spec2Model ----
(***************************************************************************)
(* A model of isciml.py: the work partition computed by every MPI rank,    *)
(* the start-up checks and the per-file loop of the isciml command, the     *)
(* MagneticProperties loader and MagneticSolver.solve.                      *)
(***************************************************************************)
EXTENDS Integers, Sequences, FiniteSets, TLC

(***************************************************************************)
(* Bounds of the model.                                                    *)
(***************************************************************************)
MaxTotal == 32

MaxProcs == 2

MaxFiles == 2

MaxCols == 5

MaxRows == 2

MaxCoord == 1

(***************************************************************************)
(* Python floats are IEEE-754 doubles.  A positive double is kept as its   *)
(* MantissaBits-bit mantissa, cut into three limbs of LimbBits bits (l2    *)
(* the most significant), and a scale k: its value is                      *)
(* (l2 * Limb^2 + l1 * Limb + l0) / 2^k.                                    *)
(***************************************************************************)
MantissaBits == 53

LimbBits == 18

Limb == 2 ^ LimbBits

RECURSIVE BitLen(_)
BitLen(n) == IF n = 0 THEN 0 ELSE 1 + BitLen(n \div 2)

FloatZero == [k |-> 0, l2 |-> 0, l1 |-> 0, l0 |-> 0]

\* One unit more at bit `sh` of the lowest limb, carried upwards.
AddUlp(x, sh) ==
    LET t0 == x.l0 + 2 ^ sh
        t1 == x.l1 + t0 \div Limb
    IN  [k |-> x.k, l2 |-> x.l2 + t1 \div Limb, l1 |-> t1 % Limb, l0 |-> t0 % Limb]

\* Round to nearest, ties to even, dropping the lowest sh bits of x; halfUp
\* says the dropped part is at least half a unit, sticky that it is not
\* exactly zero or half.
RoundNearestEven(x, sh, halfUp, sticky) ==
    LET kept == [x EXCEPT !.l0 = (x.l0 \div 2 ^ sh) * 2 ^ sh]
        lsb  == (x.l0 \div 2 ^ sh) % 2
    IN  IF halfUp /\ (sticky \/ lsb = 1) THEN AddUlp(kept, sh) ELSE kept

\* n / d of two ints with 1 <= d <= n: the nearest double, by long division
\* limb by limb.
TrueDiv(n, d) ==
    LET k  == MantissaBits - BitLen(n \div d)
        a2 == n * 2 ^ (k - 2 * LimbBits)
        a1 == (a2 % d) * Limb
        a0 == (a1 % d) * Limb
        r  == a0 % d
        x  == [k |-> k, l2 |-> a2 \div d, l1 |-> a1 \div d, l0 |-> a0 \div d]
    IN  RoundNearestEven(x, 0, 2 * r >= d, (2 * r) % d # 0)

\* int * float: the exact product, rounded to the nearest double.
FloatMul(r, x) ==
    IF r = 0 \/ x = FloatZero THEN FloatZero
    ELSE LET t0 == r * x.l0
             t1 == r * x.l1 + t0 \div Limb
             t2 == r * x.l2 + t1 \div Limb
             p  == [k |-> x.k, l2 |-> t2, l1 |-> t1 % Limb, l0 |-> t0 % Limb]
             sh == BitLen(t2) + 2 * LimbBits - MantissaBits
             d  == IF sh > 0 THEN p.l0 % 2 ^ sh ELSE 0
         IN  IF sh <= 0 THEN p
             ELSE RoundNearestEven(p, sh, d >= 2 ^ (sh - 1), d % 2 ^ (sh - 1) # 0)

\* int(x) of a non-negative float below 2^31: truncation.
FloatToInt(x) == IF x = FloatZero THEN 0 ELSE x.l2 \div 2 ^ (x.k - 2 * LimbBits)

(***************************************************************************)
(* The work partition, isciml lines 413-419.                               *)
(***************************************************************************)
files_per_proc(total_files, size) == TrueDiv(total_files, size)

\* A block partition: every rank starts at rank * floor(total / size).
start_file_index_Block(rank, total_files, size) ==
    rank * (total_files \div size)

start_file_index(rank, total_files, size) ==
    FloatToInt(FloatMul(rank, files_per_proc(total_files, size)))

\* The last rank treated like the others.
end_file_index_NoLast(rank, total_files, size) ==
    FloatToInt(FloatMul(rank + 1, files_per_proc(total_files, size)))

end_file_index(rank, total_files, size) ==
    IF rank = size - 1
    THEN total_files
    ELSE FloatToInt(FloatMul(rank + 1, files_per_proc(total_files, size)))

(***************************************************************************)
(* Arrays.  A one-dimensional numpy array is its length and a token that   *)
(* stands for its contents; a scalar is a quotient of two numbers.  A      *)
(* property source (what np.load returns) has ndim, rows and, column by     *)
(* column, the tokens of its contents (one token when ndim = 1).           *)
(***************************************************************************)
CAP == 1000000

Min(a, b) == IF a < b THEN a ELSE b

Array(n, token) == [kind |-> "array", len |-> n, data |-> token]

Scalar(num, den) == [kind |-> "scalar", num |-> num, den |-> den]

\* np.sqrt on the sums of squares the model draws (perfect squares).
Sqrt(n) == CHOOSE r \in 0..n : r * r = n

\* isinstance(x, float): Bx / Bv is a numpy float64, a subclass of float;
\* a column of the source is an ndarray.
IsFloat(x) == x.kind = "scalar"

\* len(buffer[0:n]) for a buffer of CAP rows.
SliceLen(n) == Min(n, CAP)

\* buffer[0:n] = src, numpy's broadcasting rule on the leading axis: the
\* source has as many rows as the slice, or exactly one.
AssignOk_Truncating(dstLen, srcLen) == srcLen >= dstLen \/ srcLen = 1

AssignOk(dstLen, srcLen) == srcLen = dstLen \/ srcLen = 1

Raise(type, line) == [status |-> "error", type |-> type, line |-> line]

(***************************************************************************)
(* MagneticProperties.__init__, lines 111-162.                             *)
(***************************************************************************)
\* Per-cell direction cosines only from a source with all three columns.
MagneticProperties_AllOrNothing(file, ambient_magnetic_field) ==
    IF ~file.exists THEN Raise("ValueError", 120)
    ELSE IF ~file.loadable THEN Raise("ValueError", 126)
    ELSE IF file.ndim = 0 THEN Raise("ValueError", 134)
    ELSE IF Len(ambient_magnetic_field) < 3 THEN Raise("IndexError", 144)
    ELSE
    LET properties == file.cols
        shape1 == Len(properties)
        Column(c) == Array(file.rows, properties[c + 1])
        Bx == ambient_magnetic_field[1]
        By == ambient_magnetic_field[2]
        Bz == ambient_magnetic_field[3]
        Bv == Sqrt(Bx ^ 2 + By ^ 2 + Bz ^ 2)
    IN  [status |-> "ok", file_name |-> file.name, n_cells |-> file.rows,
         susceptibility |-> IF shape1 > 0 THEN Column(0) ELSE [kind |-> "unset"],
         kx |-> IF shape1 > 3 THEN Column(1) ELSE Scalar(Bx, Bv),
         ky |-> IF shape1 > 3 THEN Column(2) ELSE Scalar(By, Bv),
         kz |-> IF shape1 > 3 THEN Column(3) ELSE Scalar(Bz, Bv)]

MagneticProperties(file, ambient_magnetic_field) ==
    IF ~file.exists THEN Raise("ValueError", 120)
    ELSE IF ~file.loadable THEN Raise("ValueError", 126)
    ELSE IF file.ndim = 0 THEN Raise("ValueError", 134)
    ELSE IF Len(ambient_magnetic_field) < 3 THEN Raise("IndexError", 144)
    ELSE
    LET \* line 137: a 1-D source becomes a single column
        properties == file.cols
        shape1 == Len(properties)
        Column(c) == Array(file.rows, properties[c + 1])
        Bx == ambient_magnetic_field[1]
        By == ambient_magnetic_field[2]
        Bz == ambient_magnetic_field[3]
        Bv == Sqrt(Bx ^ 2 + By ^ 2 + Bz ^ 2)
    IN  [status |-> "ok", file_name |-> file.name, n_cells |-> file.rows,
         susceptibility |-> IF shape1 > 0 THEN Column(0) ELSE [kind |-> "unset"],
         kx |-> IF shape1 > 1 THEN Column(1) ELSE Scalar(Bx, Bv),
         ky |-> IF shape1 > 2 THEN Column(2) ELSE Scalar(By, Bv),
         kz |-> IF shape1 > 3 THEN Column(3) ELSE Scalar(Bz, Bv)]

(***************************************************************************)
(* MagneticSolver.__init__, lines 166-209.                                 *)
(***************************************************************************)
MagneticSolverInit(receiver, ambient_magnetic_field) ==
    IF ~receiver.exists THEN Raise("ValueError", 180)
    ELSE IF ~receiver.readable THEN Raise("ValueError", 189)
    ELSE IF Len(ambient_magnetic_field) # 3 THEN Raise("ValueError", 198)
    ELSE
    LET Bx == ambient_magnetic_field[1]
        By == ambient_magnetic_field[2]
        Bz == ambient_magnetic_field[3]
        Bv == Sqrt(Bx ^ 2 + By ^ 2 + Bz ^ 2)
    IN  [status |-> "ok", n_obs |-> receiver.rows, rx_cols |-> receiver.cols,
         Bv |-> Bv, LX |-> Scalar(Bx, Bv), LY |-> Scalar(By, Bv),
         LZ |-> Scalar(Bz, Bv)]

(***************************************************************************)
(* The external kernels adjoint.adjoint and forward.forward: each receives *)
(* the packed buffers and returns a buffer of CAP values, the first ncells *)
(* (adjoint) or n_obs (forward) of which answer the call, in input order.  *)
(***************************************************************************)
KernelOutput(kernel, file_name) == Array(CAP, <<kernel, file_name>>)

\* output = buffer[0:n]
Prefix(buffer, n) == Array(Min(n, buffer.len), buffer.data)

(***************************************************************************)
(* MagneticSolver.solve, lines 211-316.                                    *)
(***************************************************************************)
\* The else-branch of the adjoint isinstance test: str() is called with
\* three arguments (lines 276-280) and raises TypeError before the message
\* is built, logged or raised as the ValueError of line 284.
UnsupportedModeBranch == Raise("TypeError", 276)

\* Lines 217-241: the fixed-capacity buffers are filled; the first copy that
\* numpy cannot broadcast raises ValueError.
PackError(solver, mesh, magnetic_properties) ==
    IF magnetic_properties.susceptibility.kind = "unset"
    THEN Raise("AttributeError", 218)
    ELSE IF ~AssignOk(SliceLen(mesh.ncells), magnetic_properties.susceptibility.len)
    THEN Raise("ValueError", 218)
    ELSE IF ~AssignOk(SliceLen(mesh.ncells), mesh.ncells)
    THEN Raise("ValueError", 221)
    ELSE IF ~AssignOk(SliceLen(mesh.npts), mesh.npts)
    THEN Raise("ValueError", 227)
    ELSE IF ~(/\ AssignOk(SliceLen(solver.n_obs), solver.n_obs)
              /\ Min(solver.rx_cols, 3) \in {1, 3})
    THEN Raise("ValueError", 241)
    ELSE [status |-> "ok"]

DirectionOk(mesh, k) == IsFloat(k) \/ AssignOk(SliceLen(mesh.ncells), k.len)

solve(solver, mesh, magnetic_properties, mode) ==
    LET packed == PackError(solver, mesh, magnetic_properties)
        none   == [kernel |-> "none"]
    IN  IF packed.status = "error" THEN packed @@ none
        ELSE IF mode = "adjoint"
        THEN IF /\ IsFloat(magnetic_properties.kx)
                /\ IsFloat(magnetic_properties.ky)
                /\ IsFloat(magnetic_properties.kz)
             THEN [status |-> "ok", kernel |-> "adjoint",
                   ncells |-> mesh.ncells, n_obs |-> solver.n_obs,
                   output |-> Prefix(KernelOutput("adjoint",
                                 magnetic_properties.file_name), mesh.ncells)]
             ELSE UnsupportedModeBranch @@ none
        ELSE IF ~DirectionOk(mesh, magnetic_properties.kx)
             THEN Raise("ValueError", 290) @@ none
        ELSE IF ~DirectionOk(mesh, magnetic_properties.ky)
             THEN Raise("ValueError", 293) @@ none
        ELSE IF ~DirectionOk(mesh, magnetic_properties.kz)
             THEN Raise("ValueError", 296) @@ none
        ELSE [status |-> "ok", kernel |-> "forward",
              ncells |-> mesh.ncells, n_obs |-> solver.n_obs,
              output |-> Prefix(KernelOutput("forward",
                            magnetic_properties.file_name), solver.n_obs)]

(***************************************************************************)
(* Mesh.get_volumes, lines 77-107.  nodes maps a node label (from 0) to    *)
(* its three coordinates, tet_nodes[itet + 1] is row itet of the           *)
(* connectivity, four node labels.  The coordinates are small integers,    *)
(* which floating point holds and combines exactly; pv / 6.0 is kept as    *)
(* the quotient it rounds, a scalar.                                       *)
(***************************************************************************)
Abs(n) == IF n < 0 THEN -n ELSE n

\* np.abs of a scalar.
np_abs(x) == Scalar(Abs(x.num), x.den)

\* Lines 83-103: the signed six-fold volume of row itet.
pv(nodes, tet_nodes, itet) ==
    LET n1 == tet_nodes[itet + 1][1]
        n2 == tet_nodes[itet + 1][2]
        n3 == tet_nodes[itet + 1][3]
        n4 == tet_nodes[itet + 1][4]
        x1 == nodes[n1][1]
        y1 == nodes[n1][2]
        z1 == nodes[n1][3]
        x2 == nodes[n2][1]
        y2 == nodes[n2][2]
        z2 == nodes[n2][3]
        x3 == nodes[n3][1]
        y3 == nodes[n3][2]
        z3 == nodes[n3][3]
        x4 == nodes[n4][1]
        y4 == nodes[n4][2]
        z4 == nodes[n4][3]
    IN  (x4 - x1) * ((y2 - y1) * (z3 - z1) - (z2 - z1) * (y3 - y1))
        + (y4 - y1) * ((z2 - z1) * (x3 - x1) - (x2 - x1) * (z3 - z1))
        + (z4 - z1) * ((x2 - x1) * (y3 - y1) - (y2 - y1) * (x3 - x1))

\* The volume without np.abs: signed by the orientation of the labels.
vot_itet_Signed(nodes, tet_nodes, itet) == Scalar(pv(nodes, tet_nodes, itet), 6)

\* Line 104: vot[itet] = np.abs(pv / 6.0).
vot_itet(nodes, tet_nodes, itet) == np_abs(Scalar(pv(nodes, tet_nodes, itet), 6))

\* np.zeros((ntt)).
np_zeros(ntt) == [i \in 1..ntt |-> Scalar(0, 1)]

(***************************************************************************)
(* State.                                                                  *)
(*   part          a partition being computed rank by rank (PartSpec)      *)
(*   call          one load-and-solve call on drawn inputs (SolveSpec)     *)
(*   env           what a run is started with: kwargs, the input folder,   *)
(*                 the mesh and receiver files, the number of processes    *)
(*   outdir        the output folder: whether it exists, and its files     *)
(*   pc, err       every rank's position in isciml() and how it ended      *)
(*   slice, idx    numpy_files[start:end] of the rank and the loop's place *)
(*   opened        the property files the rank has loaded                  *)
(*   kernel_calls  the kernel calls the rank has made                      *)
(*   written       the output files the rank has saved, in order           *)
(*   created       whether the rank created the output folder              *)
(*   tetmesh       a Mesh object: its nodes, its tet_nodes, the position   *)
(*                 of the loop of get_volumes and the volumes it filled    *)
(***************************************************************************)
VARIABLES part, call, env, outdir, pc, err, slice, idx, opened, kernel_calls,
          written, created, tetmesh

vars == <<part, call, env, outdir, pc, err, slice, idx, opened, kernel_calls,
          written, created, tetmesh>>

runVars == <<env, outdir, pc, err, slice, idx, opened, kernel_calls, written,
             created>>

PartIdle == part = [total |-> 0, size |-> 0, ranges |-> <<>>, rejected |-> TRUE]

CallIdle == call = [pc |-> "idle"]

RunIdle ==
    /\ env = [size |-> 0]
    /\ outdir = [exists |-> FALSE, files |-> {}]
    /\ pc = <<>> /\ err = <<>> /\ slice = <<>> /\ idx = <<>>
    /\ opened = <<>> /\ kernel_calls = <<>> /\ written = <<>> /\ created = <<>>

MeshIdle == tetmesh = [pc |-> "idle"]

(***************************************************************************)
(* PartSpec: every rank of a run of `size` processes over `total` files    *)
(* computes its range; ranges[r + 1] is the range of rank r.               *)
(***************************************************************************)
PartInit ==
    /\ \E t \in 0..MaxTotal, s \in 1..MaxTotal :
         part = [total |-> t, size |-> s, ranges |-> <<>>, rejected |-> FALSE]
    /\ CallIdle /\ RunIdle /\ MeshIdle

\* Lines 405-411: more processes than files.
PartReject ==
    /\ part.size > part.total
    /\ ~part.rejected
    /\ part' = [part EXCEPT !.rejected = TRUE]
    /\ UNCHANGED <<call, runVars, tetmesh>>

\* Lines 413-419 on the next rank.
PartCompute ==
    /\ part.size <= part.total
    /\ Len(part.ranges) < part.size
    /\ LET rank == Len(part.ranges)
       IN  part' = [part EXCEPT !.ranges = Append(@,
                [start |-> start_file_index(rank, part.total, part.size),
                 end   |-> end_file_index(rank, part.total, part.size)])]
    /\ UNCHANGED <<call, runVars, tetmesh>>

PartNext == PartReject \/ PartCompute

PartSpec == PartInit /\ [][PartNext]_vars

(***************************************************************************)
(* SolveSpec: a solver is built, one property source is loaded and solve   *)
(* is called on it, for inputs drawn from the sets below.                  *)
(***************************************************************************)
Sizes == (1..MaxRows) \cup {CAP, CAP + 1}

\* Column c of a source holds the token c.
ColumnTokens(k) == [c \in 1..k |-> c - 1]

Source(name, ndim, rows, k) ==
    [name |-> name, exists |-> TRUE, loadable |-> TRUE, ndim |-> ndim,
     rows |-> rows, cols |-> ColumnTokens(k)]

Sources ==
    {Source("f", 2, n, k) : n \in Sizes, k \in 0..MaxCols}
    \cup {Source("f", 1, n, 1) : n \in Sizes}
    \cup {Source("f", 0, 0, 0),
          [Source("f", 1, 1, 1) EXCEPT !.loadable = FALSE],
          [Source("f", 1, 1, 1) EXCEPT !.exists = FALSE]}

Ambients == {<<3, 4, 0>>, <<1, 0, 0>>, <<2, 3, 6>>}

Receiver(rows, cols) ==
    [exists |-> TRUE, readable |-> TRUE, rows |-> rows, cols |-> cols]

Receivers ==
    {Receiver(n, 3) : n \in Sizes} \cup {Receiver(2, 2), Receiver(2, 4)}

Meshes ==
    {[ncells |-> n, npts |-> 4] : n \in Sizes} \cup {[ncells |-> 2, npts |-> CAP + 1]}

Modes == {"adjoint", "forward"}

SolveInit ==
    /\ \E f \in Sources, a \in Ambients, m \in Meshes, r \in Receivers,
          mode \in Modes :
         call = [pc |-> "new", file |-> f, ambient |-> a, mesh |-> m,
                 receiver |-> r, mode |-> mode,
                 solver |-> MagneticSolverInit(r, a)]
    /\ PartIdle /\ RunIdle /\ MeshIdle

\* properties = MagneticProperties(_file, ambient_field)
CallLoad ==
    /\ call.pc = "new"
    /\ LET p == MagneticProperties(call.file, call.ambient)
       IN  call' = [pc |-> IF p.status = "ok" THEN "loaded" ELSE "failed",
                    properties |-> p] @@ call
    /\ UNCHANGED <<part, runVars, tetmesh>>

\* output = solver.solve(mesh, properties, mode)
CallSolve ==
    /\ call.pc = "loaded"
    /\ LET res == solve(call.solver, call.mesh, call.properties, call.mode)
       IN  call' = [pc |-> "solved", result |-> res] @@ call
    /\ UNCHANGED <<part, runVars, tetmesh>>

SolveNext == CallLoad \/ CallSolve

SolveSpec == SolveInit /\ [][SolveNext]_vars

(***************************************************************************)
(* Spec: a run of env.size processes of the isciml command, lines 371-442. *)
(* Every system call on the shared output folder is a step of its own.     *)
(***************************************************************************)
Ranks == 0..(env.size - 1)

\* The mesh of a run and its receivers.
RunMesh == [ncells |-> 2, npts |-> 4]

GoodFile(i) == Source(i, 1, RunMesh.ncells, 1)

\* What one property file of the input folder may be: a good single-column
\* source, an unreadable file, a two-column source, a source of the wrong
\* length.
BadFiles(i) ==
    {[GoodFile(i) EXCEPT !.loadable = FALSE],
     Source(i, 2, RunMesh.ncells, 2),
     Source(i, 1, RunMesh.ncells + 1, 1)}

\* Input folders of n files, at most one of them not a good one.
Folders(n) ==
    {[i \in 1..n |-> GoodFile(i)]}
    \cup {[i \in 1..n |-> IF i = b THEN f ELSE GoodFile(i)] :
             <<b, f>> \in UNION {{b} \X BadFiles(b) : b \in 1..n}}

\* What the start-up checks may find wrong, one thing at a time.
Startups == {"ok", "no_vtk", "no_receiver", "bad_ambient", "no_input_folder"}

Environment(size, files, mode, startup, out) ==
    [size           |-> size,
     vtk_exists     |-> startup # "no_vtk",
     receiver       |-> [Receiver(2, 3) EXCEPT !.exists = startup # "no_receiver"],
     ambient_field  |-> IF startup = "bad_ambient" THEN <<3, 4>> ELSE <<3, 4, 0>>,
     input_exists   |-> startup # "no_input_folder",
     files          |-> files,
     solver         |-> mode,
     output_prefix  |-> "",
     mesh           |-> RunMesh,
     out_init       |-> out]

Stale == [name |-> "stale", data |-> "stale"]

Init ==
    /\ \E size \in 1..MaxProcs, n \in 0..MaxFiles, mode \in Modes,
          startup \in Startups, out \in {"absent", "empty", "nonempty"} :
         \E files \in Folders(n) :
            /\ env = Environment(size, files, mode, startup, out)
            /\ outdir = [exists |-> out # "absent",
                         files  |-> IF out = "nonempty" THEN {Stale} ELSE {}]
            /\ pc = [p \in 0..(size - 1) |-> "start"]
            /\ err = [p \in 0..(size - 1) |-> "none"]
            /\ slice = [p \in 0..(size - 1) |-> <<>>]
            /\ idx = [p \in 0..(size - 1) |-> 1]
            /\ opened = [p \in 0..(size - 1) |-> <<>>]
            /\ kernel_calls = [p \in 0..(size - 1) |-> 0]
            /\ written = [p \in 0..(size - 1) |-> <<>>]
            /\ created = [p \in 0..(size - 1) |-> FALSE]
    /\ PartIdle /\ CallIdle /\ MeshIdle

\* The process ends with error e: an uncaught exception or sys.exit(1).
Abort(p, e) ==
    /\ pc' = [pc EXCEPT ![p] = "aborted"]
    /\ err' = [err EXCEPT ![p] = e]

Goto(p, where) ==
    /\ pc' = [pc EXCEPT ![p] = where]
    /\ UNCHANGED err

\* Lines 372-380: Mesh(vtk), its centroids and volumes, MagneticSolver(...).
Construct(p) ==
    /\ pc[p] = "start"
    /\ IF ~env.vtk_exists
       THEN Abort(p, "MeshNotFound")
       ELSE LET s == MagneticSolverInit(env.receiver, env.ambient_field)
            IN  IF s.status = "error"
                THEN Abort(p, IF s.line = 198 THEN "AmbientFieldLength"
                              ELSE "ReceiverNotFound")
                ELSE Goto(p, "check_output")
    /\ UNCHANGED <<tetmesh, part, call, env, outdir, slice, idx, opened, kernel_calls,
                   written, created>>

\* Line 383: os.path.exists(output_folder).
CheckOutput(p) ==
    /\ pc[p] = "check_output"
    /\ Goto(p, IF outdir.exists THEN "listdir" ELSE "mkdir")
    /\ UNCHANGED <<tetmesh, part, call, env, outdir, slice, idx, opened, kernel_calls,
                   written, created>>

\* Lines 384-388: os.listdir(output_folder) and sys.exit(1) if it lists a file.
ListDir(p) ==
    /\ pc[p] = "listdir"
    /\ IF outdir.files # {}
       THEN Abort(p, "OutputNotEmpty")
       ELSE Goto(p, "glob")
    /\ UNCHANGED <<tetmesh, part, call, env, outdir, slice, idx, opened, kernel_calls,
                   written, created>>

\* Line 393: os.mkdir(output_folder), FileExistsError if it exists by now.
MkDir(p) ==
    /\ pc[p] = "mkdir"
    /\ IF outdir.exists
       THEN Abort(p, "FileExistsError") /\ UNCHANGED <<outdir, created>>
       ELSE /\ Goto(p, "glob")
            /\ outdir' = [outdir EXCEPT !.exists = TRUE]
            /\ created' = [created EXCEPT ![p] = TRUE]
    /\ UNCHANGED <<tetmesh, part, call, env, slice, idx, opened, kernel_calls, written>>

\* glob.glob returns the folder's files "in arbitrary order": any order.
Listings ==
    {l \in [DOMAIN env.files -> DOMAIN env.files] :
        \A i, j \in DOMAIN l : i # j => l[i] # l[j]}

\* numpy_files[start_file_index:end_file_index]
Slice(numpy_files, start, end) ==
    SubSeq(numpy_files, start + 1, Min(end, Len(numpy_files)))

\* Lines 396-426: the input folder is listed, the file count is checked
\* against the number of processes, and the rank takes its slice.
Glob(p) ==
    /\ pc[p] = "glob"
    /\ IF ~env.input_exists
       THEN Abort(p, "InputFolderNotFound") /\ UNCHANGED slice
       ELSE \E numpy_files \in Listings :
              LET total_files == Len(numpy_files)
              IN  IF env.size > total_files
                  THEN Abort(p, "InsufficientFiles") /\ UNCHANGED slice
                  ELSE /\ Goto(p, "load")
                       /\ slice' = [slice EXCEPT ![p] =
                             Slice(numpy_files,
                                   start_file_index(p, total_files, env.size),
                                   end_file_index(p, total_files, env.size))]
    /\ UNCHANGED <<tetmesh, part, call, env, outdir, idx, opened, kernel_calls, written,
                   created>>

\* The solver of the run, built by every process from the same files.
RunSolver == MagneticSolverInit(env.receiver, env.ambient_field)

Loaded(f) == MagneticProperties(env.files[f], env.ambient_field)

Solved(f) == solve(RunSolver, env.mesh, Loaded(f), env.solver)

\* Lines 433-439: the output file's name, {prefix}_{basename}.
OutputName(f) ==
    <<IF env.output_prefix = "" THEN env.solver ELSE env.output_prefix, f>>

OutputFile(f) == [name |-> OutputName(f), data |-> Solved(f).output]

\* A failing file is logged and the loop goes on to the next one.
LoadAndSolve_Skip(p) ==
    /\ pc[p] = "load"
    /\ idx[p] <= Len(slice[p])
    /\ LET f == slice[p][idx[p]]
       IN  /\ opened' = [opened EXCEPT ![p] = Append(@, f)]
           /\ IF Loaded(f).status = "error" \/ Solved(f).status = "error"
              THEN Goto(p, "load") /\ idx' = [idx EXCEPT ![p] = @ + 1]
              ELSE Goto(p, "save") /\ UNCHANGED idx
           /\ kernel_calls' = [kernel_calls EXCEPT ![p] =
                 IF Loaded(f).status = "ok" /\ Solved(f).kernel # "none"
                 THEN @ + 1 ELSE @]
    /\ UNCHANGED <<tetmesh, part, call, env, outdir, slice, written, created>>

\* Lines 431-432 on the next file of the slice: an exception of the loader
\* or of solve ends the process.
LoadAndSolve(p) ==
    /\ pc[p] = "load"
    /\ idx[p] <= Len(slice[p])
    /\ LET f == slice[p][idx[p]]
       IN  /\ opened' = [opened EXCEPT ![p] = Append(@, f)]
           /\ IF Loaded(f).status = "error"
              THEN Abort(p, "PropertiesLoad")
              ELSE IF Solved(f).status = "error"
              THEN Abort(p, "Solve")
              ELSE Goto(p, "save")
           /\ kernel_calls' = [kernel_calls EXCEPT ![p] =
                 IF Loaded(f).status = "ok" /\ Solved(f).kernel # "none"
                 THEN @ + 1 ELSE @]
    /\ UNCHANGED <<tetmesh, part, call, env, outdir, slice, idx, written, created>>

\* Lines 433-440: np.save writes (or overwrites) the output file.
Save(p) ==
    /\ pc[p] = "save"
    /\ LET f == slice[p][idx[p]]
       IN  /\ outdir' = [outdir EXCEPT !.files =
                 {o \in @ : o.name # OutputName(f)} \cup {OutputFile(f)}]
           /\ written' = [written EXCEPT ![p] = Append(@, OutputFile(f))]
    /\ idx' = [idx EXCEPT ![p] = @ + 1]
    /\ Goto(p, "load")
    /\ UNCHANGED <<tetmesh, part, call, env, slice, opened, kernel_calls, created>>

\* Line 442: the slice is exhausted, isciml returns 0.
Return(p) ==
    /\ pc[p] = "load"
    /\ idx[p] > Len(slice[p])
    /\ Goto(p, "done")
    /\ UNCHANGED <<tetmesh, part, call, env, outdir, slice, idx, opened, kernel_calls,
                   written, created>>

Next ==
    \/ \E p \in Ranks : Construct(p)
    \/ \E p \in Ranks : CheckOutput(p)
    \/ \E p \in Ranks : ListDir(p)
    \/ \E p \in Ranks : MkDir(p)
    \/ \E p \in Ranks : Glob(p)
    \/ \E p \in Ranks : LoadAndSolve(p)
    \/ \E p \in Ranks : Save(p)
    \/ \E p \in Ranks : Return(p)

Spec == Init /\ [][Next]_vars

(***************************************************************************)
(* VolSpec: get_volumes on a Mesh object.  The points of the mesh are the  *)
(* integer points of a slab, x in 0..MaxCoord and y, z in 0..1; its        *)
(* connectivity lists a tetrahedron on any four of them, the same          *)
(* tetrahedron under one of the 24 orders of its labels, and the corner    *)
(* tetrahedron at the origin.                                              *)
(***************************************************************************)
Side == MaxCoord + 1

\* self.nodes, line 53: one row of three coordinates per point.
GridNodes ==
    [n \in 0..(4 * Side - 1) |->
        <<n % Side, (n \div Side) % 2, n \div (2 * Side)>>]

Labels == DOMAIN GridNodes

LabelOrders ==
    {p \in [1..4 -> 1..4] : \A i, j \in 1..4 : p[i] = p[j] => i = j}

Relabel(tet, p) == [i \in 1..4 |-> tet[p[i]]]

CornerTet == <<0, 1, Side, 2 * Side>>

\* self.tet_nodes, line 54: one row of four labels per cell.
\* Four labels in increasing order.
Tets ==
    UNION {UNION {UNION {{<<a, b, c, d>> : d \in {n \in Labels : n > c}} :
                         c \in {n \in Labels : n > b}} :
                  b \in {n \in Labels : n > a}} :
           a \in Labels}

\* self.tet_nodes, line 54: one row of four labels per cell.
Connectivities ==
    {<<q[1], Relabel(q[1], q[2]), CornerTet>> : q \in Tets \X LabelOrders}

VolInit ==
    /\ \E tn \in Connectivities :
         tetmesh = [pc |-> "new", nodes |-> GridNodes, tet_nodes |-> tn,
                    ntt |-> 0, itet |-> 0, vot |-> <<>>, volumes |-> <<>>]
    /\ PartIdle /\ CallIdle /\ RunIdle

\* Lines 80-81: ntt = len(self.tet_nodes); vot = np.zeros((ntt)).
GetVolumesEnter ==
    /\ tetmesh.pc = "new"
    /\ tetmesh' = [tetmesh EXCEPT !.pc = "loop",
                                  !.ntt = Len(tetmesh.tet_nodes),
                                  !.vot = np_zeros(Len(tetmesh.tet_nodes)),
                                  !.itet = 0]
    /\ UNCHANGED <<part, call, runVars>>

\* Lines 82-104: one turn of the loop over itet.
GetVolumesStep ==
    /\ tetmesh.pc = "loop"
    /\ tetmesh.itet < tetmesh.ntt
    /\ tetmesh' = [tetmesh EXCEPT
                     !.vot[tetmesh.itet + 1] =
                         vot_itet(tetmesh.nodes, tetmesh.tet_nodes, tetmesh.itet),
                     !.itet = tetmesh.itet + 1]
    /\ UNCHANGED <<part, call, runVars>>

\* Line 105: self.volumes = vot.
GetVolumesExit ==
    /\ tetmesh.pc = "loop"
    /\ tetmesh.itet = tetmesh.ntt
    /\ tetmesh' = [tetmesh EXCEPT !.pc = "done", !.volumes = tetmesh.vot]
    /\ UNCHANGED <<part, call, runVars>>

VolNext == GetVolumesEnter \/ GetVolumesStep \/ GetVolumesExit

VolSpec == VolInit /\ [][VolNext]_vars

(***************************************************************************)
(* Claims about the work partition (PartSpec).                             *)
(***************************************************************************)
FloorShare(rank, total, size) == (rank * total) \div size

Indices(rg) == {i \in 0..(part.total - 1) : rg.start <= i /\ i < rg.end}

Computed == 1..Len(part.ranges)

AllComputed == part.size <= part.total /\ Len(part.ranges) = part.size

Contiguous ==
    /\ \A r \in Computed : part.ranges[r].start <= part.ranges[r].end
    /\ Len(part.ranges) > 0 => part.ranges[1].start = 0
    /\ \A r \in Computed : r + 1 \in Computed =>
           part.ranges[r].end = part.ranges[r + 1].start

Disjoint ==
    \A r, s \in Computed :
        r # s => Indices(part.ranges[r]) \cap Indices(part.ranges[s]) = {}

CoversAll ==
    AllComputed =>
        UNION {Indices(part.ranges[r]) : r \in Computed} = 0..(part.total - 1)

TenByThree ==
    (AllComputed /\ part.total = 10 /\ part.size = 3) =>
        part.ranges = <<[start |-> 0, end |-> 3], [start |-> 3, end |-> 6],
                        [start |-> 6, end |-> 10]>>

\* C1 as stated: the ranges are [floor(rank*total/P), floor((rank+1)*total/P)),
\* the last ending at total, and they are contiguous, pairwise disjoint and
\* cover [0, total), being [0,3), [3,6), [6,10) for total = 10 and P = 3.
C1_ExactFloorRanges ==
    /\ \A r \in Computed :
           /\ part.ranges[r].start = FloorShare(r - 1, part.total, part.size)
           /\ part.ranges[r].end =
                  IF r = part.size THEN part.total
                  ELSE FloorShare(r, part.total, part.size)
    /\ Contiguous /\ Disjoint /\ CoversAll /\ TenByThree

\* C1 (amended): the ranges the ranks compute are contiguous, pairwise
\* disjoint and cover [0, total), being [0,3), [3,6), [6,10) for total = 10 and
\* P = 3; every start is floor(rank*total/P) or one less than it.
C1_PartitionCovers ==
    /\ Contiguous /\ Disjoint /\ CoversAll /\ TenByThree
    /\ \A r \in Computed :
           part.ranges[r].start \in
               {FloorShare(r - 1, part.total, part.size),
                FloorShare(r - 1, part.total, part.size) - 1}

\* A run of 22 ranks over 30 files, all ranges computed, where rank 11 starts
\* at 14 although floor(11 * 30 / 22) = 15.
C1_Witness ==
    /\ AllComputed /\ part.total = 30 /\ part.size = 22
    /\ part.ranges[12].start = 14
    /\ part.ranges[11].end = 14

Count(rg) == rg.end - rg.start

\* C2 as stated: every rank but the last gets exactly floor(total / P) files
\* and the last one total - (P - 1) * floor(total / P).
C2_FloorCounts ==
    \A r \in Computed :
        Count(part.ranges[r]) =
            IF r = part.size
            THEN part.total - (part.size - 1) * (part.total \div part.size)
            ELSE part.total \div part.size

\* C2 (amended): every rank, the last included, gets floor(total / P) or
\* floor(total / P) + 1 files, and the last rank gets all the files from its
\* start to the end of the list.
C2_BalancedCounts ==
    /\ \A r \in Computed :
           Count(part.ranges[r]) \in
               {part.total \div part.size, part.total \div part.size + 1}
    /\ AllComputed =>
           Count(part.ranges[part.size]) =
               part.total - part.ranges[part.size].start

\* Three ranks over five files: the middle rank holds two files, not one.
C2_Witness ==
    /\ AllComputed /\ part.total = 5 /\ part.size = 3
    /\ Count(part.ranges[2]) = 2
    /\ Count(part.ranges[3]) = 2

(***************************************************************************)
(* Claims about a run (Spec).                                              *)
(***************************************************************************)
Names(outputs) == {outputs[i].name : i \in DOMAIN outputs}

\* The start-up inputs are all in order.
ValidInputs ==
    /\ env.vtk_exists /\ env.receiver.exists /\ env.input_exists
    /\ Len(env.ambient_field) = 3

AllFilesSolvable ==
    \A f \in DOMAIN env.files : Loaded(f).status = "ok" /\ Solved(f).status = "ok"

\* C3: started on an absent or empty output folder with no more processes
\* than files and every file loading and solving, no process aborts under
\* any interleaving, every process saves its whole slice, and when all are
\* done the output folder holds exactly one file per property file.
C3_NoAbortOneOutputPerInput ==
    (/\ ValidInputs /\ env.out_init \in {"absent", "empty"}
     /\ env.size <= Len(env.files) /\ AllFilesSolvable) =>
        /\ \A p \in Ranks : pc[p] # "aborted"
        /\ \A p \in Ranks : pc[p] = "done" => Len(written[p]) = Len(slice[p])
        /\ (\A p \in Ranks : pc[p] = "done") =>
               {o.name : o \in outdir.files} =
                   {OutputName(f) : f \in DOMAIN env.files}

\* C4: no output name is written by two processes, nor twice by one.
C4_DisjointOutputNames ==
    /\ \A p, q \in Ranks :
           p # q => Names(written[p]) \cap Names(written[q]) = {}
    /\ \A p \in Ranks : Cardinality(Names(written[p])) = Len(written[p])

\* C5: with more processes than files (and the other inputs in order) every
\* process ends with the insufficient-files error, and it has then loaded
\* no property file, called no kernel and written no output.
C5_InsufficientFilesBeforeAnyWork ==
    (/\ ValidInputs /\ env.out_init \in {"absent", "empty"}
     /\ env.size > Len(env.files)) =>
        \A p \in Ranks :
            /\ pc[p] \notin {"load", "save", "done"}
            /\ pc[p] = "aborted" =>
                   /\ err[p] = "InsufficientFiles"
                   /\ opened[p] = <<>> /\ kernel_calls[p] = 0
                   /\ written[p] = <<>>

FileErrors == {"PropertiesLoad", "Solve"}

\* C6: a process has saved, in order, the output of every file of its slice
\* before the loop's place and of no other, each of which loaded and solved;
\* when it aborts on the file at the loop's place, that file failed to load
\* or to solve, and the outputs saved before are still in the output folder
\* as they were written.
C6_FailFastKeepsEarlierOutputs ==
    \A p \in Ranks :
        /\ \A i \in 1..(idx[p] - 1) :
               /\ i <= Len(slice[p])
               /\ Loaded(slice[p][i]).status = "ok"
               /\ Solved(slice[p][i]).status = "ok"
        /\ written[p] = [i \in 1..(idx[p] - 1) |-> OutputFile(slice[p][i])]
        /\ (pc[p] = "aborted" /\ err[p] \in FileErrors) =>
               /\ idx[p] <= Len(slice[p])
               /\ \/ Loaded(slice[p][idx[p]]).status = "error"
                  \/ Solved(slice[p][idx[p]]).status = "error"
               /\ \A i \in DOMAIN written[p] : written[p][i] \in outdir.files

\* A process that saved its first file and aborted on its second.
C6_Witness ==
    \E p \in Ranks :
        /\ pc[p] = "aborted" /\ err[p] \in FileErrors
        /\ idx[p] = 2 /\ Len(slice[p]) = 2
        /\ written[p] = <<OutputFile(slice[p][1])>>
        /\ written[p][1] \in outdir.files

ValidationErrors ==
    {"MeshNotFound", "ReceiverNotFound", "AmbientFieldLength", "OutputNotEmpty",
     "InputFolderNotFound", "InsufficientFiles"}

\* C7: a process that aborts on a validation error has loaded no property
\* file, called no kernel, written no output and not created the output
\* folder.
C7_ValidationAbortLeavesNoTrace ==
    \A p \in Ranks :
        (pc[p] = "aborted" /\ err[p] \in ValidationErrors) =>
            /\ opened[p] = <<>> /\ kernel_calls[p] = 0 /\ written[p] = <<>>
            /\ ~created[p]

(***************************************************************************)
(* Claims about one call (SolveSpec).                                      *)
(***************************************************************************)
\* The error line 284 is written to raise.
UnsupportedModeError == Raise("ValueError", 284)

AllScalar(p) == IsFloat(p.kx) /\ IsFloat(p.ky) /\ IsFloat(p.kz)

\* A source of as many rows as the mesh has cells, all within capacity.
Fits ==
    /\ call.properties.n_cells = call.mesh.ncells
    /\ call.mesh.ncells <= CAP /\ call.mesh.npts <= CAP
    /\ call.solver.n_obs <= CAP /\ call.solver.rx_cols = 3
    /\ Len(call.file.cols) >= 1

\* C8: in adjoint mode solve calls the adjoint kernel and returns cell_count
\* values exactly when kx, ky and kz are scalars, which is when the source
\* has a single column; otherwise it fails with the unsupported-mode error
\* and calls no kernel.
C8_AdjointIffScalar ==
    (call.pc = "solved" /\ call.mode = "adjoint" /\ Fits) =>
        /\ AllScalar(call.properties) <=> Len(call.file.cols) = 1
        /\ AllScalar(call.properties) <=>
               /\ call.result.status = "ok"
               /\ call.result.kernel = "adjoint"
               /\ call.result.output.len = call.mesh.ncells
        /\ ~AllScalar(call.properties) =>
               /\ [status |-> call.result.status, type |-> call.result.type,
                   line |-> call.result.line] = UnsupportedModeError
               /\ call.result.kernel = "none"

\* C9: with more than CAP cells or more than CAP observation points solve
\* fails in one of its buffer copies, before any kernel is called, and
\* returns nothing.
C9_OverCapacityFails ==
    (/\ call.pc = "solved"
     /\ (call.mesh.ncells > CAP \/ call.solver.n_obs > CAP)) =>
        /\ call.result.status = "error"
        /\ call.result.line \in 218..241
        /\ call.result.kernel = "none"
        /\ "output" \notin DOMAIN call.result

\* A mesh of CAP + 1 cells with a source of exactly CAP rows: the
\* susceptibility fits its slice and the copy of the centroids fails.
C9_Witness ==
    /\ call.pc = "solved"
    /\ call.mesh.ncells = CAP + 1
    /\ call.properties.susceptibility.len = CAP
    /\ call.result.status = "error" /\ call.result.line = 221

\* C10: susceptibility is column 0; kx, ky, kz are columns 1, 2, 3 of the
\* source where it has them and the solver's unit direction LX, LY, LZ of
\* the ambient field where it has not, each decided on its own.
C10_DirectionCosines ==
    (call.pc \in {"loaded", "solved"} /\ Len(call.file.cols) >= 1) =>
        LET k == Len(call.file.cols)
            p == call.properties
            n == call.file.rows
        IN  /\ p.susceptibility = Array(n, 0)
            /\ p.kx = IF k > 1 THEN Array(n, 1) ELSE call.solver.LX
            /\ p.ky = IF k > 2 THEN Array(n, 2) ELSE call.solver.LY
            /\ p.kz = IF k > 3 THEN Array(n, 3) ELSE call.solver.LZ
            /\ k = 1 => AllScalar(p)
            /\ k >= 4 => ~IsFloat(p.kx) /\ ~IsFloat(p.ky) /\ ~IsFloat(p.kz)

\* A two-column source under the ambient field (3, 4, 0): kx per cell, ky and
\* kz the scalars 4/5 and 0/5.
C10_Witness ==
    /\ call.pc = "loaded" /\ Len(call.file.cols) = 2
    /\ call.ambient = <<3, 4, 0>>
    /\ call.properties.kx = Array(call.file.rows, 1)
    /\ call.properties.ky = Scalar(4, 5)
    /\ call.properties.kz = Scalar(0, 5)

(***************************************************************************)
(* Claims about the mesh geometry (VolSpec).                               *)
(***************************************************************************)
Sub(a, b) == <<a[1] - b[1], a[2] - b[2], a[3] - b[3]>>

Dot(a, b) == a[1] * b[1] + a[2] * b[2] + a[3] * b[3]

Cross(a, b) ==
    <<a[2] * b[3] - a[3] * b[2], a[3] * b[1] - a[1] * b[3],
      a[1] * b[2] - a[2] * b[1]>>

TripleProduct(a, b, c) == Dot(a, Cross(b, c))

\* The triple product of (v2 - v1), (v3 - v1), (v4 - v1) of four labels.
TetTriple(tet) ==
    LET v(k) == tetmesh.nodes[tet[k]]
    IN  TripleProduct(Sub(v(2), v(1)), Sub(v(3), v(1)), Sub(v(4), v(1)))

SameValue(a, b) == a.num * b.den = b.num * a.den

NonNegative(a) == a.den > 0 /\ a.num >= 0

Returned == tetmesh.pc = "done"

\* C11: once get_volumes has returned, volumes has one entry per row of
\* tet_nodes; volumes[i] is |triple product of (v2 - v1), (v3 - v1),
\* (v4 - v1)| / 6 of the nodes of tet_nodes[i], is >= 0, and equals the
\* volume of every row that lists the same four labels in any of the 24
\* orders.
C11_VolumeAbsTripleProductOverSix ==
    Returned =>
        /\ Len(tetmesh.volumes) = Len(tetmesh.tet_nodes)
        /\ \A i \in DOMAIN tetmesh.tet_nodes :
             /\ SameValue(tetmesh.volumes[i],
                          Scalar(Abs(TetTriple(tetmesh.tet_nodes[i])), 6))
             /\ NonNegative(tetmesh.volumes[i])
             /\ \A p \in LabelOrders : \A j \in DOMAIN tetmesh.tet_nodes :
                  tetmesh.tet_nodes[j] = Relabel(tetmesh.tet_nodes[i], p) =>
                      SameValue(tetmesh.volumes[j], tetmesh.volumes[i])

\* get_volumes has returned on a mesh whose first two rows are the same
\* tetrahedron of volume 2/6 in opposite orientations, next to the corner
\* tetrahedron of volume 1/6.
C11_Witness ==
    /\ Returned
    /\ pv(tetmesh.nodes, tetmesh.tet_nodes, 0) = 2
    /\ pv(tetmesh.nodes, tetmesh.tet_nodes, 1) = -2
    /\ SameValue(tetmesh.volumes[1], Scalar(2, 6))
    /\ SameValue(tetmesh.volumes[2], tetmesh.volumes[1])
    /\ SameValue(tetmesh.volumes[3], Scalar(1, 6))

====
